---- MODULE Spec2Model ----
(***************************************************************************)
(* Model of ec2-build.py: class AWSManager (EC2, S3 and Route53 gateway    *)
(* operations issued through boto3 clients) and the command line main().   *)
(* The provider account (instances, buckets, zones, records) is the        *)
(* persistent state; every gateway operation logs the client calls it      *)
(* makes, the lines it prints, its return value and any exception that     *)
(* escapes it.                                                             *)
(***************************************************************************)
EXTENDS Integers, Sequences, FiniteSets, TLC

\* ---------------------------------------------------------------- bounds
\* Number of gateway operations in one run of the model.
MaxOps == 2

\* ------------------------------------------------------------ option type
\* Python None / a value: functions that "return" with no value give None.
None == <<>>
Some(v) == <<v>>
Truthy(o) == o # None

\* ------------------------------------------------------------- constants
OwnerTag == [Key |-> "CreatedBy", Value |-> "alon_tool"]
\* An allow-list one type too wide.
AllowedInstanceTypes_Wider == {"t3.nano", "t4g.nano", "t2.micro"}
AllowedInstanceTypes == {"t3.nano", "t4g.nano"}
DefaultInstanceType == "t3.nano"
DefaultAmi == "ami-0a0e5d9c7acc336f1"
SubnetId == "subnet-0532609ba3d9e75a5"
SecurityGroups == <<"sg-0bcf72bd953300830">>
PowerActions == {"start", "stop"}
RecordTTL == 60
DefaultRecordType == "A"

\* A configuration that leaves one protection on.
PabDisabled_KeepsPolicyBlock ==
  [BlockPublicAcls |-> FALSE, IgnorePublicAcls |-> FALSE,
   BlockPublicPolicy |-> TRUE, RestrictPublicBuckets |-> FALSE]

\* PublicAccessBlockConfiguration sent by create_bucket (lines 88-93).
PabDisabled ==
  [BlockPublicAcls |-> FALSE, IgnorePublicAcls |-> FALSE,
   BlockPublicPolicy |-> FALSE, RestrictPublicBuckets |-> FALSE]

\* The setting of a bucket whose public access block nobody changed.
PabDefault ==
  [BlockPublicAcls |-> TRUE, IgnorePublicAcls |-> TRUE,
   BlockPublicPolicy |-> TRUE, RestrictPublicBuckets |-> TRUE]

\* f"arn:aws:s3:::{bucket_name}/*"
ObjectsArn(bucket_name) == <<"arn:aws:s3:::", bucket_name, "/*">>

BucketPolicy(bucket_name) ==
  [Version |-> "2012-10-17",
   Statement |-> << [Sid |-> "PublicReadGetObject",
                     Effect |-> "Allow",
                     Principal |-> "*",
                     Action |-> "s3:GetObject",
                     Resource |-> ObjectsArn(bucket_name)] >>]

\* json.dumps: the document becomes a string, no longer a dict.
JsonDumps(doc) == <<"json", doc>>

\* ------------------------------------------------- the confirmation text
\* Text typed at the prompt, as a sequence of characters.
IsSpace(c) == c \in {" ", "\t", "\n"}

LowerChar(c) ==
  CASE c = "Y" -> "y" [] c = "E" -> "e" [] c = "S" -> "s"
    [] c = "N" -> "n" [] c = "O" -> "o" [] OTHER -> c

RECURSIVE LStrip(_)
LStrip(s) == IF s # <<>> /\ IsSpace(Head(s)) THEN LStrip(Tail(s)) ELSE s

RECURSIVE RStrip(_)
RStrip(s) ==
  IF s # <<>> /\ IsSpace(s[Len(s)]) THEN RStrip(SubSeq(s, 1, Len(s) - 1)) ELSE s

Strip(s) == RStrip(LStrip(s))
Lower(s) == [i \in 1..Len(s) |-> LowerChar(s[i])]

Yes == <<"y", "e", "s">>

\* input(...).strip().lower()
Confirmation(answer) == Lower(Strip(answer))

Answers ==
  { <<"y", "e", "s">>, <<" ", "Y", "E", "S", "\n">>, <<"Y", "e", "s">>,
    <<"n", "o">>, <<"y">>, <<>> }


\* ------------------------------------------------------- input domains
LegacyBucket == "legacy-bucket"
BucketNames == {LegacyBucket, "bucket-a"}
InstanceTypes == {"t3.nano", "t4g.nano", "t2.micro"}
InstanceIds == {1, 2}
ManageActions == {"start", "stop", "reboot"}
LocalFiles == {"report.txt"}
FilePaths == {"report.txt", "missing.txt"}
ObjectKeys == {"report"}
Domains == {"example.com"}
ZoneIds == {1, 2}
HashSeeds == {0, 1}
RecordActions == {"create", "delete"}
RecordNames == {"www.example.com"}
RecordValues == {"192.0.2.1"}

\* Tag sets found on resources that exist before the tool runs; <<>> is a
\* resource with no tag set.
ForeignTagSets ==
  { <<>>,
    << OwnerTag >>,
    << [Key |-> "CreatedBy", Value |-> "someone_else"] >>,
    << [Key |-> "Owner", Value |-> "alon_tool"], OwnerTag >> }

\* ------------------------------------------------------------------ state
VARIABLES
  s3Order,       \* bucket names of the account, in the order list_buckets gives
  s3Tags,        \* bucket name -> TagSet (<<>>: no tag set)
  s3Pab,         \* bucket name -> public access block configuration
  s3Policy,      \* bucket name -> None or Some(policy string)
  s3Objects,     \* set of <<bucket, key>>
  ec2Instances,  \* sequence of instances; InstanceId is the index
  r53Zones,      \* sequence of hosted zones; the zone id is the index
  r53Records,    \* set of resource record sets
  created,       \* resources that a create call of the tool brought into being
  anyFailed,     \* some provider call has failed so far
  nops,          \* operations started so far
  pc,            \* "idle", "done", or the position inside a running operation
  op,            \* the operation running or last run, with its arguments
  cmd,           \* None, or Some(parsed command line) when main() started op
  calls,         \* client calls made by op, in order, with their result
  out,           \* lines printed by op, in order
  ret,           \* return value of op
  exc            \* "none", or the exception that escaped op

s3vars == <<s3Order, s3Tags, s3Pab, s3Policy, s3Objects>>
ec2vars == <<ec2Instances>>
r53vars == <<r53Zones, r53Records>>
vars == <<s3Order, s3Tags, s3Pab, s3Policy, s3Objects, ec2Instances, r53Zones,
          r53Records, created, anyFailed, nops, pc, op, cmd, calls, out, ret, exc>>

Idle == pc \in {"idle", "done"}
CanStart == Idle /\ nops < MaxOps

Call(api, args, result) == [api |-> api, args |-> args, result |-> result]
Line(text, arg) == [text |-> text, arg |-> arg]

ResultOf(fail) == IF fail THEN "ClientError" ELSE "ok"

\* One position of an operation: what it leaves in the log variables.
Step(o, c, l, r, e, p) ==
  /\ op' = o
  /\ calls' = c
  /\ out' = l
  /\ ret' = r
  /\ exc' = e
  /\ pc' = p

HasOwnerTag(tag_set) == \E i \in 1..Len(tag_set) : tag_set[i] = OwnerTag

Init ==
  /\ \E t \in {None} \cup {Some(ts) : ts \in ForeignTagSets} :
       /\ s3Order = IF t = None THEN <<>> ELSE <<LegacyBucket>>
       /\ s3Tags = [b \in BucketNames |->
                      IF t = None \/ b # LegacyBucket THEN <<>> ELSE t[1]]
  /\ s3Pab = [b \in BucketNames |-> PabDefault]
  /\ s3Policy = [b \in BucketNames |-> None]
  /\ s3Objects = {}
  /\ ec2Instances = << [InstanceType |-> "t2.micro", ImageId |-> DefaultAmi,
                         State |-> "running", Tags |-> <<>>] >>
  /\ r53Zones = <<>>
  /\ r53Records = {}
  /\ created = {}
  /\ anyFailed = FALSE
  /\ nops = 0
  /\ pc = "idle"
  /\ op = [name |-> "none"]
  /\ cmd = None
  /\ calls = <<>>
  /\ out = <<>>
  /\ ret = None
  /\ exc = "none"

\* ---------------------------------------------------------------- S3
\* A handler that swallows the error and lets the operation go on.
AfterClientError_GoOn(next) == next

\* Where the except ClientError handler of an operation leaves it.
AfterClientError(next) == "done"

\* A prompt that cancels on "no" alone.
CancelPublic_OnlyOnNo(confirmation) == confirmation = <<"n", "o">>

\* if confirmation != 'yes': ... return
CancelPublic(confirmation) == confirmation # Yes

\* The provider's create_bucket: a new private, untagged bucket; creating a
\* bucket the account already owns changes nothing.
S3CreateBucket(bucket_name) ==
  IF \E i \in 1..Len(s3Order) : s3Order[i] = bucket_name
  THEN UNCHANGED <<s3Order, s3Tags, s3Pab, s3Policy, created>>
  ELSE /\ s3Order' = Append(s3Order, bucket_name)
       /\ s3Tags' = [s3Tags EXCEPT ![bucket_name] = <<>>]
       /\ s3Pab' = [s3Pab EXCEPT ![bucket_name] = PabDefault]
       /\ s3Policy' = [s3Policy EXCEPT ![bucket_name] = None]
       /\ created' = created \cup {<<"bucket", bucket_name>>}

\* create_bucket, line 78: self.s3.create_bucket(Bucket=bucket_name).  The
\* field before of op remembers the buckets of the account on entry.
create_bucket(bucket_name, public, fail) ==
  LET o == [name |-> "create_bucket", bucket_name |-> bucket_name,
            public |-> public, answer |-> None,
            before |-> <<s3Order, s3Tags, s3Pab, s3Policy>>]
      c == <<Call("s3.create_bucket", [Bucket |-> bucket_name], ResultOf(fail))>>
  IN
  /\ anyFailed' = (anyFailed \/ fail)
  /\ UNCHANGED <<s3Objects, ec2vars, r53vars>>
  /\ IF fail
     THEN /\ Step(o, c, <<Line("Error creating S3 bucket: ", "ClientError")>>,
                  None, "none",
                  AfterClientError(IF public THEN "cb_prompt" ELSE "cb_tag"))
          /\ UNCHANGED <<s3Order, s3Tags, s3Pab, s3Policy, created>>
     ELSE /\ Step(o, c, <<>>, None, "none",
                  IF public THEN "cb_prompt" ELSE "cb_tag")
          /\ S3CreateBucket(bucket_name)

CreateBucket ==
  /\ CanStart
  /\ \E bucket_name \in BucketNames, public \in BOOLEAN, fail \in BOOLEAN :
       create_bucket(bucket_name, public, fail)
  /\ cmd' = None
  /\ nops' = nops + 1

\* lines 80-84: the prompt, and the return when the answer is not yes
CbConfirm ==
  /\ pc = "cb_prompt"
  /\ \E answer \in Answers :
       LET confirmation == Confirmation(answer) IN
       /\ op' = [op EXCEPT !.answer = Some(answer)]
       /\ IF CancelPublic(confirmation)
          THEN /\ out' = Append(out, Line("creation of your s3 bucket is canceled", None))
               /\ pc' = "done"
          ELSE /\ out' = out
               /\ pc' = "cb_pab"
  /\ UNCHANGED <<s3vars, ec2vars, r53vars, created, anyFailed, nops, cmd, calls, ret, exc>>

\* The tail of the except ClientError handler of create_bucket.
CbError(call, next) ==
  /\ calls' = Append(calls, call)
  /\ out' = Append(out, Line("Error creating S3 bucket: ", "ClientError"))
  /\ pc' = AfterClientError(next)
  /\ anyFailed' = TRUE
  /\ UNCHANGED <<s3vars, ec2vars, r53vars, created, nops, op, cmd, ret, exc>>

\* lines 86-94
CbPutPublicAccessBlock ==
  /\ pc = "cb_pab"
  /\ \E fail \in BOOLEAN :
       LET args == [Bucket |-> op.bucket_name,
                    PublicAccessBlockConfiguration |-> PabDisabled]
       IN
       IF fail
       THEN CbError(Call("s3.put_public_access_block", args, "ClientError"), "cb_policy")
       ELSE /\ calls' = Append(calls, Call("s3.put_public_access_block", args, "ok"))
            /\ s3Pab' = [s3Pab EXCEPT ![op.bucket_name] = PabDisabled]
            /\ pc' = "cb_policy"
            /\ UNCHANGED <<s3Order, s3Tags, s3Policy, s3Objects, ec2vars, r53vars,
                           created, anyFailed, nops, op, cmd, out, ret, exc>>

\* lines 97-110
CbPutBucketPolicy ==
  /\ pc = "cb_policy"
  /\ \E fail \in BOOLEAN :
       LET bucket_policy == JsonDumps(BucketPolicy(op.bucket_name))
           args == [Bucket |-> op.bucket_name, Policy |-> bucket_policy]
       IN
       IF fail
       THEN CbError(Call("s3.put_bucket_policy", args, "ClientError"), "cb_tag")
       ELSE /\ calls' = Append(calls, Call("s3.put_bucket_policy", args, "ok"))
            /\ s3Policy' = [s3Policy EXCEPT ![op.bucket_name] = Some(bucket_policy)]
            /\ pc' = "cb_tag"
            /\ UNCHANGED <<s3Order, s3Tags, s3Pab, s3Objects, ec2vars, r53vars,
                           created, anyFailed, nops, op, cmd, out, ret, exc>>

\* lines 112-120
CbPutBucketTagging ==
  /\ pc = "cb_tag"
  /\ \E fail \in BOOLEAN :
       LET args == [Bucket |-> op.bucket_name,
                    Tagging |-> [TagSet |-> << OwnerTag >>]]
       IN
       IF fail
       THEN CbError(Call("s3.put_bucket_tagging", args, "ClientError"), "done")
       ELSE /\ calls' = Append(calls, Call("s3.put_bucket_tagging", args, "ok"))
            /\ s3Tags' = [s3Tags EXCEPT ![op.bucket_name] = args.Tagging.TagSet]
            /\ out' = Append(out, Line("Created S3 bucket: ", op.bucket_name))
            /\ pc' = "done"
            /\ UNCHANGED <<s3Order, s3Pab, s3Policy, s3Objects, ec2vars, r53vars,
                           created, anyFailed, nops, op, cmd, ret, exc>>

\* A test that looks at the key alone.
IsOwnerTag_KeyOnly(tag) == tag["Key"] = "CreatedBy"

\* lines 130-131: the test applied to each tag of a bucket
IsOwnerTag(tag) == tag["Key"] = "CreatedBy" /\ tag["Value"] = "alon_tool"

\* lines 130-133: for tag in tag_set, print the bucket at the first match, break
RECURSIVE BucketLines(_, _)
BucketLines(bucket, tag_set) ==
  IF tag_set = <<>> THEN <<>>
  ELSE IF IsOwnerTag(Head(tag_set)) THEN <<Line("Bucket Name: ", bucket)>>
  ELSE BucketLines(bucket, Tail(tag_set))

\* list_s3_buckets, line 126: response = self.s3.list_buckets()
list_s3_buckets(fail) ==
  LET c == <<Call("s3.list_buckets", <<>>, ResultOf(fail))>> IN
  /\ anyFailed' = (anyFailed \/ fail)
  /\ UNCHANGED <<s3vars, ec2vars, r53vars, created>>
  /\ IF fail
     THEN Step([name |-> "list_s3_buckets", Buckets |-> <<>>, idx |-> 1], c,
               <<Line("Error listing S3 buckets: ", "ClientError")>>, None, "none",
               AfterClientError("done"))
     ELSE Step([name |-> "list_s3_buckets", Buckets |-> s3Order, idx |-> 1], c,
               <<>>, None, "none", IF s3Order = <<>> THEN "done" ELSE "ls_tag")

ListS3Buckets ==
  /\ CanStart
  /\ \E fail \in BOOLEAN : list_s3_buckets(fail)
  /\ cmd' = None
  /\ nops' = nops + 1

\* lines 127-133: one turn of the loop over response['Buckets'].  The
\* provider answers get_bucket_tagging on a bucket without a tag set with a
\* ClientError (NoSuchTagSet).
LsGetBucketTagging ==
  /\ pc = "ls_tag"
  /\ \E fail \in BOOLEAN :
       LET bucket == op.Buckets[op.idx]
           failed == fail \/ s3Tags[bucket] = <<>>
           after == IF op.idx = Len(op.Buckets) THEN "done" ELSE "ls_tag"
           tag_set == s3Tags[bucket]
       IN
       /\ calls' = Append(calls, Call("s3.get_bucket_tagging", [Bucket |-> bucket],
                                      ResultOf(failed)))
       /\ op' = [op EXCEPT !.idx = op.idx + 1]
       /\ anyFailed' = (anyFailed \/ failed)
       /\ IF failed
          THEN /\ out' = Append(out, Line("Error listing S3 buckets: ", "ClientError"))
               /\ pc' = AfterClientError(after)
          ELSE /\ out' = out \o BucketLines(bucket, tag_set)
               /\ pc' = after
  /\ UNCHANGED <<s3vars, ec2vars, r53vars, created, nops, cmd, ret, exc>>

\* An upload that reports a missing bucket before it looks at the file.
UploadResult_BucketFirst(file_path, bucket_name, fail) ==
  IF fail \/ ~(\E i \in 1..Len(s3Order) : s3Order[i] = bucket_name)
  THEN "ClientError"
  ELSE IF file_path \notin LocalFiles THEN "FileNotFoundError"
  ELSE "ok"

\* What self.s3.upload_file does: it raises FileNotFoundError for a path
\* that is not a local file, and a ClientError when the transfer fails.
UploadResult(file_path, bucket_name, fail) ==
  IF file_path \notin LocalFiles THEN "FileNotFoundError"
  ELSE IF fail \/ ~(\E i \in 1..Len(s3Order) : s3Order[i] = bucket_name)
  THEN "ClientError"
  ELSE "ok"

\* upload_file_to_s3, lines 137-146
upload_file_to_s3(file_path, bucket_name, object_key, fail) ==
  LET result == UploadResult(file_path, bucket_name, fail)
      o == [name |-> "upload_file_to_s3", file_path |-> file_path,
            bucket_name |-> bucket_name, object_key |-> object_key]
      c == <<Call("s3.upload_file", <<file_path, bucket_name, object_key>>, result)>>
  IN
  /\ anyFailed' = (anyFailed \/ result = "ClientError")
  /\ UNCHANGED <<s3Order, s3Tags, s3Pab, s3Policy, ec2vars, r53vars, created>>
  /\ s3Objects' = IF result = "ok" THEN s3Objects \cup {<<bucket_name, object_key>>}
                  ELSE s3Objects
  /\ Step(o, c,
          << CASE result = "ok" ->
                    Line("Uploaded file to bucket with key", <<file_path, bucket_name, object_key>>)
               [] result = "FileNotFoundError" -> Line("File not found", file_path)
               [] OTHER -> Line("Error uploading file to S3: ", "ClientError") >>,
          None, "none", "done")

UploadFileToS3 ==
  /\ CanStart
  /\ \E file_path \in FilePaths, bucket_name \in BucketNames,
        object_key \in ObjectKeys, fail \in BOOLEAN :
       upload_file_to_s3(file_path, bucket_name, object_key, fail)
  /\ cmd' = None
  /\ nops' = nops + 1

\* ---------------------------------------------------------------- EC2
\* lines 32-39
TagSpecifications ==
  << [ResourceType |-> "instance", Tags |-> << OwnerTag >>] >>

\* lines 24-31
NetworkInterfaces ==
  << [AssociatePublicIpAddress |-> TRUE, DeviceIndex |-> 0,
      SubnetId |-> SubnetId, Groups |-> SecurityGroups] >>

\* The tags run_instances puts on the new instance.
RECURSIVE InstanceTags(_)
InstanceTags(specs) ==
  IF specs = <<>> THEN <<>>
  ELSE (IF Head(specs).ResourceType = "instance" THEN Head(specs).Tags ELSE <<>>)
       \o InstanceTags(Tail(specs))

\* create_ec2_instance, lines 14-46
create_ec2_instance(instance_type, ami_id, fail) ==
  LET o == [name |-> "create_ec2_instance", instance_type |-> instance_type,
            ami_id |-> ami_id]
      args == [ImageId |-> ami_id, InstanceType |-> instance_type,
               MaxCount |-> 1, MinCount |-> 1,
               NetworkInterfaces |-> NetworkInterfaces,
               TagSpecifications |-> TagSpecifications]
      instance_id == Len(ec2Instances) + 1
  IN
  /\ UNCHANGED <<s3vars, r53vars>>
  /\ IF instance_type \notin AllowedInstanceTypes
     THEN /\ Step(o, <<>>, <<Line("Invalid instance type: ", instance_type)>>,
                  None, "none", "done")
          /\ UNCHANGED <<ec2vars, created, anyFailed>>
     ELSE IF fail
     THEN /\ Step(o, <<Call("ec2.run_instances", args, "ClientError")>>,
                  <<Line("Error creating EC2 instance: ", "ClientError")>>,
                  None, "none", "done")
          /\ anyFailed' = TRUE
          /\ UNCHANGED <<ec2vars, created>>
     ELSE /\ Step(o, <<Call("ec2.run_instances", args, "ok")>>,
                  <<Line("Created EC2 instance: ", instance_id)>>,
                  Some(instance_id), "none", "done")
          /\ ec2Instances' = Append(ec2Instances,
               [InstanceType |-> args.InstanceType, ImageId |-> args.ImageId,
                State |-> "pending", Tags |-> InstanceTags(args.TagSpecifications)])
          /\ created' = created \cup {<<"instance", instance_id>>}
          /\ UNCHANGED anyFailed

CreateEc2Instance ==
  /\ CanStart
  /\ \E instance_type \in InstanceTypes, fail \in BOOLEAN :
       create_ec2_instance(instance_type, DefaultAmi, fail)
  /\ cmd' = None
  /\ nops' = nops + 1

\* lines 51-53
ListFilters == << [Name |-> "tag:CreatedBy", Values |-> <<"alon_tool">>] >>

\* "tag:CreatedBy" names the tag key CreatedBy.
FilterKey(name) == IF name = "tag:CreatedBy" THEN "CreatedBy" ELSE name

\* The provider's tag filter: "tag:<key>" matches an instance that has a tag
\* <key> with one of the values.
MatchesFilter(instance, f) ==
  \E i \in 1..Len(instance.Tags) :
    /\ instance.Tags[i].Key = FilterKey(f.Name)
    /\ \E j \in 1..Len(f.Values) : f.Values[j] = instance.Tags[i].Value

\* Instance ids from position n on that match every filter, in order.
RECURSIVE DescribeInstances(_, _)
DescribeInstances(filters, n) ==
  IF n > Len(ec2Instances) THEN <<>>
  ELSE (IF \A k \in 1..Len(filters) : MatchesFilter(ec2Instances[n], filters[k])
        THEN <<n>> ELSE <<>>) \o DescribeInstances(filters, n + 1)

\* list_instances, lines 48-59
list_instances(fail) ==
  LET found == DescribeInstances(ListFilters, 1) IN
  /\ UNCHANGED <<s3vars, ec2vars, r53vars, created>>
  /\ anyFailed' = (anyFailed \/ fail)
  /\ Step([name |-> "list_instances"],
          <<Call("ec2.describe_instances", [Filters |-> ListFilters], ResultOf(fail))>>,
          IF fail THEN <<Line("Error listing EC2 instances: ", "ClientError")>>
          ELSE [i \in 1..Len(found) |->
                  Line("Instance ID, State", <<found[i], ec2Instances[found[i]].State>>)],
          None, "none", "done")

ListInstances ==
  /\ CanStart
  /\ \E fail \in BOOLEAN : list_instances(fail)
  /\ cmd' = None
  /\ nops' = nops + 1

\* manage_instance, lines 61-73.  The provider rejects an unknown instance id.
manage_instance(action, instance_id, fail) ==
  LET o == [name |-> "manage_instance", action |-> action,
            instance_id |-> instance_id]
      failed == fail \/ instance_id > Len(ec2Instances)
      args == [InstanceIds |-> <<instance_id>>]
  IN
  /\ UNCHANGED <<s3vars, r53vars, created>>
  /\ IF action \notin PowerActions
     THEN /\ Step(o, <<>>, <<Line("Invalid action: ", action)>>, None, "none", "done")
          /\ UNCHANGED <<ec2vars, anyFailed>>
     ELSE IF failed
     THEN /\ Step(o,
                  <<Call(IF action = "start" THEN "ec2.start_instances"
                         ELSE "ec2.stop_instances", args, "ClientError")>>,
                  <<Line("Error managing EC2 instance: ", "ClientError")>>,
                  None, "none", "done")
          /\ anyFailed' = TRUE
          /\ UNCHANGED ec2vars
     ELSE IF action = "start"
     THEN /\ Step(o, <<Call("ec2.start_instances", args, "ok")>>,
                  <<Line("Started EC2 instance: ", instance_id)>>, None, "none", "done")
          /\ ec2Instances' = [ec2Instances EXCEPT ![instance_id].State = "running"]
          /\ UNCHANGED anyFailed
     ELSE /\ Step(o, <<Call("ec2.stop_instances", args, "ok")>>,
                  <<Line("Stopped EC2 instance: ", instance_id)>>, None, "none", "done")
          /\ ec2Instances' = [ec2Instances EXCEPT ![instance_id].State = "stopped"]
          /\ UNCHANGED anyFailed

ManageInstance ==
  /\ CanStart
  /\ \E action \in ManageActions, instance_id \in InstanceIds, fail \in BOOLEAN :
       manage_instance(action, instance_id, fail)
  /\ cmd' = None
  /\ nops' = nops + 1

\* ------------------------------------------------------------ Route53
\* hash() of a str is salted per process; str() turns the number into text.
PyHash(seed, text) == <<"hash", seed, text>>
Str(x) == <<"str", x>>

\* create_route53_zone, lines 149-157.  The provider rejects a
\* CallerReference it has already seen.
create_route53_zone(domain_name, seed, fail) ==
  LET args == [Name |-> domain_name, CallerReference |-> Str(PyHash(seed, domain_name))]
      failed == fail \/ \E z \in 1..Len(r53Zones) :
                          r53Zones[z].CallerReference = args.CallerReference
      o == [name |-> "create_route53_zone", domain_name |-> domain_name]
      zone_id == Len(r53Zones) + 1
  IN
  /\ UNCHANGED <<s3vars, ec2vars, r53Records>>
  /\ anyFailed' = (anyFailed \/ failed)
  /\ IF failed
     THEN /\ Step(o, <<Call("route53.create_hosted_zone", args, "ClientError")>>,
                  <<Line("Error creating Route53 hosted zone: ", "ClientError")>>,
                  None, "none", "done")
          /\ UNCHANGED <<r53Zones, created>>
     ELSE /\ Step(o, <<Call("route53.create_hosted_zone", args, "ok")>>,
                  <<Line("Created Route53 hosted zone: ", domain_name)>>,
                  None, "none", "done")
          /\ r53Zones' = Append(r53Zones,
               [Name |-> args.Name, CallerReference |-> args.CallerReference,
                Tags |-> <<>>])
          /\ created' = created \cup {<<"zone", zone_id>>}

CreateRoute53Zone ==
  /\ CanStart
  /\ \E domain_name \in Domains, seed \in HashSeeds, fail \in BOOLEAN :
       create_route53_zone(domain_name, seed, fail)
  /\ cmd' = None
  /\ nops' = nops + 1

\* manage_route53_record, lines 159-182.  The provider rejects a change for
\* an unknown zone and the CREATE of a record set that exists.
manage_route53_record(zone_id, action, record_name, record_type, record_value, fail) ==
  LET o == [name |-> "manage_route53_record", zone_id |-> zone_id, action |-> action,
            record_name |-> record_name, record_type |-> record_type,
            record_value |-> record_value]
      rrset == [Name |-> record_name, Type |-> record_type, TTL |-> RecordTTL,
                ResourceRecords |-> << [Value |-> record_value] >>]
      args == [HostedZoneId |-> zone_id,
               ChangeBatch |-> [Changes |-> << [Action |-> "CREATE",
                                                ResourceRecordSet |-> rrset] >>]]
      failed == \/ fail
                \/ zone_id > Len(r53Zones)
                \/ \E r \in r53Records :
                     /\ r.HostedZoneId = zone_id
                     /\ r.ResourceRecordSet.Name = record_name
                     /\ r.ResourceRecordSet.Type = record_type
  IN
  /\ UNCHANGED <<s3vars, ec2vars, r53Zones, created>>
  /\ IF action # "create"
     THEN /\ Step(o, <<>>, <<Line("Invalid action: ", action)>>, None, "none", "done")
          /\ UNCHANGED <<r53Records, anyFailed>>
     ELSE IF failed
     THEN /\ Step(o, <<Call("route53.change_resource_record_sets", args, "ClientError")>>,
                  <<Line("Error managing Route53 record: ", "ClientError")>>,
                  None, "none", "done")
          /\ anyFailed' = TRUE
          /\ UNCHANGED r53Records
     ELSE /\ Step(o, <<Call("route53.change_resource_record_sets", args, "ok")>>,
                  <<Line("Created DNS record: ", <<record_name, record_value>>)>>,
                  None, "none", "done")
          /\ r53Records' = r53Records \cup
               {[HostedZoneId |-> zone_id, ResourceRecordSet |-> rrset]}
          /\ UNCHANGED anyFailed

ManageRoute53Record ==
  /\ CanStart
  /\ \E zone_id \in ZoneIds, action \in RecordActions, record_name \in RecordNames,
        record_value \in RecordValues, fail \in BOOLEAN :
       manage_route53_record(zone_id, action, record_name, DefaultRecordType,
                             record_value, fail)
  /\ cmd' = None
  /\ nops' = nops + 1

\* ------------------------------------------------------------- main
\* The methods class AWSManager defines (lines 7-182).
Methods ==
  {"create_ec2_instance", "list_instances", "manage_instance", "create_bucket",
   "list_s3_buckets", "upload_file_to_s3", "create_route53_zone",
   "manage_route53_record"}

Resources == {"ec2", "s3", "route53"}
Actions == {"create", "list", "start", "stop", "upload"}

\* A parsed command line; a flag that was not given is None, except
\* --instance_type and --record_type, which have defaults, and --public.
Args(resource, action, instance_type, instance_id, bucket_name, public, file_path, object_key, domain_name, zone_id, record_name, record_value) ==
  [resource |-> resource, action |-> action, instance_type |-> instance_type,
   instance_id |-> instance_id, bucket_name |-> bucket_name, public |-> public,
   file_path |-> file_path, object_key |-> object_key, domain_name |-> domain_name,
   zone_id |-> zone_id, record_name |-> record_name,
   record_type |-> DefaultRecordType, record_value |-> record_value]

Opt(S) == {None} \cup {Some(x) : x \in S}

CommandLines ==
  {Args(None, a, DefaultInstanceType, None, None, FALSE, None, None, None, None, None, None) :
     a \in Opt({"create"})}
  \cup
  {Args(Some("ec2"), a, t, i, None, FALSE, None, None, None, None, None, None) :
     a \in Opt(Actions), t \in {DefaultInstanceType, "t2.micro"}, i \in Opt({1})}
  \cup
  {Args(Some("s3"), a, DefaultInstanceType, None, b, FALSE, f, k, None, None, None, None) :
     a \in Opt(Actions), b \in Opt({"bucket-a"}),
     f \in Opt({"report.txt"}), k \in Opt(ObjectKeys)}
  \cup
  {Args(Some("route53"), a, DefaultInstanceType, None, None, FALSE, None, None, d, z, n, v) :
     a \in Opt({"create", "list"}), d \in Opt(Domains), z \in Opt({1}),
     n \in Opt(RecordNames), v \in Opt(RecordValues)}

\* manager.<method>(...) for a method the class does not define: the
\* attribute lookup raises AttributeError, which nothing in main catches.
AttributeError(method) ==
  /\ Step([name |-> "main", method |-> method], <<>>, <<>>, None, "AttributeError", "done")
  /\ UNCHANGED <<s3vars, ec2vars, r53vars, created, anyFailed>>

\* A branch of main that only prints.
Usage(text) ==
  /\ Step([name |-> "main", method |-> "print"], <<>>, <<Line(text, None)>>,
          None, "none", "done")
  /\ UNCHANGED <<s3vars, ec2vars, r53vars, created, anyFailed>>

\* No branch of main taken: nothing is called, nothing printed.
NoBranch ==
  /\ Step([name |-> "main", method |-> "none"], <<>>, <<>>, None, "none", "done")
  /\ UNCHANGED <<s3vars, ec2vars, r53vars, created, anyFailed>>

\* main, lines 207-246
main(args) ==
  IF args.resource = Some("ec2") THEN
    IF args.action = Some("create") THEN
      \E fail \in BOOLEAN : create_ec2_instance(args.instance_type, DefaultAmi, fail)
    ELSE IF args.action = Some("list") THEN
      IF "list_ec2_instances" \in Methods
      THEN \E fail \in BOOLEAN : list_instances(fail)
      ELSE AttributeError("list_ec2_instances")
    ELSE IF args.action \in {Some("start"), Some("stop")} /\ Truthy(args.instance_id) THEN
      IF "manage_ec2_instance" \in Methods
      THEN \E fail \in BOOLEAN :
             manage_instance(args.action[1], args.instance_id[1], fail)
      ELSE AttributeError("manage_ec2_instance")
    ELSE Usage("For 'start' or 'stop' action, --instance_id is required.")
  ELSE IF args.resource = Some("s3") THEN
    IF args.action = Some("create") /\ Truthy(args.bucket_name) THEN
      IF "create_s3_bucket" \in Methods
      THEN \E fail \in BOOLEAN : create_bucket(args.bucket_name[1], args.public, fail)
      ELSE AttributeError("create_s3_bucket")
    ELSE IF args.action = Some("list") THEN
      \E fail \in BOOLEAN : list_s3_buckets(fail)
    ELSE IF /\ args.action = Some("upload") /\ Truthy(args.file_path)
            /\ Truthy(args.bucket_name) /\ Truthy(args.object_key) THEN
      \E fail \in BOOLEAN :
        upload_file_to_s3(args.file_path[1], args.bucket_name[1], args.object_key[1], fail)
    ELSE Usage("For 'create' action, --bucket_name is required. For 'upload' action, --file_path, --bucket_name, and --object_key are required.")
  ELSE IF args.resource = Some("route53") THEN
    IF args.action = Some("create") /\ Truthy(args.domain_name) THEN
      \E seed \in HashSeeds, fail \in BOOLEAN :
        create_route53_zone(args.domain_name[1], seed, fail)
    ELSE IF /\ args.action = Some("create") /\ Truthy(args.zone_id)
            /\ Truthy(args.record_name) /\ Truthy(args.record_value) THEN
      \E fail \in BOOLEAN :
        manage_route53_record(args.zone_id[1], args.action[1], args.record_name[1],
                              args.record_type, args.record_value[1], fail)
    ELSE Usage("For 'create' action, --domain_name (for hosted zone) or --zone_id, --record_name, and --record_value (for record) are required.")
  ELSE NoBranch

Main ==
  /\ CanStart
  /\ \E args \in CommandLines :
       /\ main(args)
       /\ cmd' = Some(args)
  /\ nops' = nops + 1

Next ==
  \/ CreateEc2Instance
  \/ ListInstances
  \/ ManageInstance
  \/ CreateBucket
  \/ CbConfirm
  \/ CbPutPublicAccessBlock
  \/ CbPutBucketPolicy
  \/ CbPutBucketTagging
  \/ ListS3Buckets
  \/ LsGetBucketTagging
  \/ UploadFileToS3
  \/ CreateRoute53Zone
  \/ ManageRoute53Record
  \/ Main

Spec == Init /\ [][Next]_vars


\* ======================================================== properties
SaidYes(answer) == Lower(Strip(answer)) = <<"y", "e", "s">>

PublicApis == {"s3.put_public_access_block", "s3.put_bucket_policy"}

ErrorTexts ==
  {"Error creating EC2 instance: ", "Error listing EC2 instances: ",
   "Error managing EC2 instance: ", "Error creating S3 bucket: ",
   "Error listing S3 buckets: ", "Error uploading file to S3: ",
   "Error creating Route53 hosted zone: ", "Error managing Route53 record: "}

ValidationTexts == {"Invalid instance type: ", "Invalid action: "}

CountLines(texts) == Cardinality({i \in 1..Len(out) : out[i].text \in texts})
CountCalls(apis) == Cardinality({i \in 1..Len(calls) : calls[i].api \in apis})
AllCallsOk == \A i \in 1..Len(calls) : calls[i].result = "ok"

\* create_bucket was asked for a public bucket and the prompt was answered
\* with something that is not yes.
CancelledPublic ==
  /\ op.name = "create_bucket"
  /\ op.public
  /\ op.answer # None
  /\ ~SaidYes(op.answer[1])

\* C1: put_public_access_block and put_bucket_policy are called only when
\* public was requested and the prompt has already been answered with yes
\* (after trimming and lower-casing); with any other answer neither is called.
C1_PublicCallsOnlyAfterYes ==
  /\ CountCalls(PublicApis) > 0 =>
       /\ op.name = "create_bucket"
       /\ op.public
       /\ op.answer # None
       /\ SaidYes(op.answer[1])
  /\ CancelledPublic => CountCalls(PublicApis) = 0

C1_Witness ==
  /\ pc = "done"
  /\ op.name = "create_bucket"
  /\ op.public
  /\ op.answer = Some(<<" ", "Y", "E", "S", "\n">>)
  /\ CountCalls({"s3.put_public_access_block"}) = 1
  /\ CountCalls({"s3.put_bucket_policy"}) = 1

\* C2: create_bucket with public requested and an answer other than yes
\* leaves the account as it was on entry: same buckets, same public access
\* settings, same policies, same tags.
C2_CancelChangesNothing ==
  (pc = "done" /\ CancelledPublic) =>
    op.before = <<s3Order, s3Tags, s3Pab, s3Policy>>

\* Tags of a resource the tool created.
TagsOf(r) ==
  CASE r[1] = "bucket" -> s3Tags[r[2]]
    [] r[1] = "instance" -> ec2Instances[r[2]].Tags
    [] OTHER -> r53Zones[r[2]].Tags

\* C3: while no operation is running and no provider call has failed, every
\* instance, bucket and hosted zone the tool created carries
\* CreatedBy=alon_tool, and a finished create_bucket made put_bucket_tagging
\* its last call.
C3_CreatedResourcesAreTagged ==
  (Idle /\ ~anyFailed) =>
    /\ \A r \in created : HasOwnerTag(TagsOf(r))
    /\ op.name = "create_bucket" =>
         calls[Len(calls)].api = "s3.put_bucket_tagging"

\* C4: create_bucket for a public bucket, answered yes, with no failing call,
\* makes after create_bucket exactly put_public_access_block with the four
\* protections false, put_bucket_policy granting anonymous s3:GetObject on
\* every object of the bucket, put_bucket_tagging with the ownership tag, in
\* this order.
C4_PublicSequence ==
  ( /\ pc = "done"
    /\ op.name = "create_bucket"
    /\ op.public
    /\ op.answer # None
    /\ SaidYes(op.answer[1])
    /\ AllCallsOk ) =>
    calls =
      << [api |-> "s3.create_bucket", args |-> [Bucket |-> op.bucket_name],
          result |-> "ok"],
         [api |-> "s3.put_public_access_block",
          args |-> [Bucket |-> op.bucket_name,
                    PublicAccessBlockConfiguration |->
                      [BlockPublicAcls |-> FALSE, IgnorePublicAcls |-> FALSE,
                       BlockPublicPolicy |-> FALSE, RestrictPublicBuckets |-> FALSE]],
          result |-> "ok"],
         [api |-> "s3.put_bucket_policy",
          args |-> [Bucket |-> op.bucket_name,
                    Policy |-> <<"json",
                      [Version |-> "2012-10-17",
                       Statement |-> << [Sid |-> "PublicReadGetObject",
                                         Effect |-> "Allow",
                                         Principal |-> "*",
                                         Action |-> "s3:GetObject",
                                         Resource |-> <<"arn:aws:s3:::", op.bucket_name, "/*">>] >>]>>],
          result |-> "ok"],
         [api |-> "s3.put_bucket_tagging",
          args |-> [Bucket |-> op.bucket_name,
                    Tagging |-> [TagSet |-> << [Key |-> "CreatedBy", Value |-> "alon_tool"] >>]],
          result |-> "ok"] >>

C4_Witness ==
  /\ pc = "done"
  /\ op.name = "create_bucket"
  /\ op.public
  /\ op.answer = Some(<<"y", "e", "s">>)
  /\ AllCallsOk
  /\ Len(calls) = 4
  /\ s3Pab[op.bucket_name].BlockPublicPolicy = FALSE
  /\ s3Policy[op.bucket_name] # None
  /\ HasOwnerTag(s3Tags[op.bucket_name])

\* The argument of op is outside the allow-list of its operation.
RejectedInput ==
  \/ op.name = "create_ec2_instance" /\ op.instance_type \notin {"t3.nano", "t4g.nano"}
  \/ op.name = "manage_instance" /\ op.action \notin {"start", "stop"}
  \/ op.name = "manage_route53_record" /\ op.action # "create"

\* C5: create_ec2_instance with a type outside {t3.nano, t4g.nano},
\* manage_instance with an action outside {start, stop} and
\* manage_route53_record with an action other than create make no provider
\* call, print one error line and return no value.
C5_ValidationBeforeCalls ==
  RejectedInput =>
    /\ pc = "done"
    /\ calls = <<>>
    /\ Len(out) = 1
    /\ out[1].text \in ValidationTexts
    /\ ret = None
    /\ exc = "none"

C5_Witness ==
  /\ op.name = "create_ec2_instance"
  /\ op.instance_type = "t2.micro"
  /\ pc = "done"
  /\ calls = <<>>
  /\ out = <<Line("Invalid instance type: ", "t2.micro")>>

\* C6: list_instances and list_s3_buckets never print a resource that lacks
\* the tag CreatedBy=alon_tool, whatever mix of resources the account holds.
C6_ListsOnlyTagged ==
  /\ op.name = "list_instances" =>
       \A i \in 1..Len(out) :
         out[i].text = "Instance ID, State" =>
           HasOwnerTag(ec2Instances[out[i].arg[1]].Tags)
  /\ op.name = "list_s3_buckets" =>
       \A i \in 1..Len(out) :
         out[i].text = "Bucket Name: " => HasOwnerTag(s3Tags[out[i].arg])

C6_Witness ==
  /\ pc = "done"
  /\ op.name = "list_s3_buckets"
  /\ Len(op.Buckets) = 2
  /\ \E i \in 1..2 : ~HasOwnerTag(s3Tags[op.Buckets[i]])
  /\ CountCalls({"s3.get_bucket_tagging"}) = 2
  /\ AllCallsOk
  /\ CountLines({"Bucket Name: "}) = 1

\* upload_file_to_s3 was given a path that is no local file.
MissingLocalFile ==
  pc = "done" /\ op.name = "upload_file_to_s3" /\ op.file_path \notin {"report.txt"}

ValidCommand(a) ==
  \/ /\ a.resource = Some("ec2")
     /\ \/ a.action \in {Some("create"), Some("list")}
        \/ a.action \in {Some("start"), Some("stop")} /\ a.instance_id # None
  \/ /\ a.resource = Some("s3")
     /\ \/ a.action = Some("create") /\ a.bucket_name # None
        \/ a.action = Some("list")
        \/ /\ a.action = Some("upload")
           /\ a.file_path # None /\ a.bucket_name # None /\ a.object_key # None
  \/ /\ a.resource = Some("route53")
     /\ a.action = Some("create")
     /\ \/ a.domain_name # None
        \/ a.zone_id # None /\ a.record_name # None /\ a.record_value # None

\* C9: for a valid command line main runs the gateway operation to its end,
\* at least one line is printed and no exception escapes.
C9_ValidCommandRuns ==
  (pc = "done" /\ cmd # None /\ ValidCommand(cmd[1])) =>
    /\ exc = "none"
    /\ op.name \in Methods
    /\ Len(out) >= 1

\* The tag fetches of a listing failed only where the bucket has no tag set.
OnlyUntaggedFetchesFail ==
  /\ calls # <<>>
  /\ calls[1].result = "ok"
  /\ \A i \in 2..Len(calls) :
       calls[i].result = "ClientError" => s3Tags[calls[i].args.Bucket] = <<>>

\* C10: list_s3_buckets fetches the tags of every bucket of the account and
\* prints every bucket that carries the ownership tag exactly once, also
\* when the account holds buckets with no tag set.
C10_ListsEveryTaggedBucket ==
  (pc = "done" /\ op.name = "list_s3_buckets" /\ OnlyUntaggedFetchesFail) =>
    \A b \in 1..Len(op.Buckets) :
      /\ Cardinality({i \in 2..Len(calls) : calls[i].args.Bucket = op.Buckets[b]}) = 1
      /\ HasOwnerTag(s3Tags[op.Buckets[b]]) =>
           Cardinality({i \in 1..Len(out) :
                          out[i] = Line("Bucket Name: ", op.Buckets[b])}) = 1

====
